---- MODULE Spec2Model ----
(* A model of p7mextractor.py: the file queue (file_queue / model), the      *)
(* destination setting, the Extract button, the conversion worker threads    *)
(* started by on_convert_clicked and the GLib main loop that runs the        *)
(* callbacks the workers post with GLib.idle_add.                            *)
(*                                                                           *)
(* Strings are sequences of one-character strings, so that basename,         *)
(* dirname, splitext, join, lower and endswith are computed as Python        *)
(* computes them.                                                            *)
EXTENDS Integers, Sequences, FiniteSets, TLC

(***************************************************************************)
(* Bounds of the model                                                     *)
(***************************************************************************)
\* threads started by on_convert_clicked in one execution
MaxRuns == 2
\* number of paths handed to process_added_items in one drop
MaxDrop == 1
\* callbacks waiting in the main loop: a thread that would post one more
\* waits for the main loop
MaxIdle == 3
\* files in the queue
MaxQueue == 2
\* user events (files added, clear, destination) handled in one execution
MaxEvents == 3
\* add(path) calls recorded by the queue specification SpecQueue
MaxAdds == 4
\* length of the file names drawn by the path specification SpecPath
MaxLen == 4
\* user events (files added, destination) handled in one execution of the
\* destination specification SpecDest
MaxDestEvents == 4

(***************************************************************************)
(* Python string and os.path functions used by the program                 *)
(***************************************************************************)
\* Python's None where a string is expected: no string is equal to it
None == <<"None">>

RECURSIVE RFind(_, _, _)
\* str.rfind(c) restricted to s[1..n]: the last position of c, 0 if absent
\* (positions are 1-based, Python's are 0-based and -1 if absent).
RFind(s, c, n) ==
  IF n = 0 THEN 0
  ELSE IF s[n] = c THEN n
  ELSE RFind(s, c, n - 1)

Slice(s, a, b) == IF a > b THEN <<>> ELSE SubSeq(s, a, b)

LowerChar(c) ==
  CASE c = "P" -> "p"
    [] c = "M" -> "m"
    [] c = "R" -> "r"
    [] c = "A" -> "a"
    [] OTHER -> c

\* str.lower()
Lower(s) == [k \in 1..Len(s) |-> LowerChar(s[k])]

\* str.endswith(suffix)
EndsWith(s, suffix) ==
  /\ Len(s) >= Len(suffix)
  /\ Slice(s, Len(s) - Len(suffix) + 1, Len(s)) = suffix

DotP7m == <<".", "p", "7", "m">>
DotPdf == <<".", "p", "d", "f">>

\* the test of lines 255 and 262: s.lower().endswith('.p7m')
MatchesP7m(s) == EndsWith(Lower(s), DotP7m)

\* os.path.basename(p): i = p.rfind('/') + 1; return p[i:]
Basename(p) == Slice(p, RFind(p, "/", Len(p)) + 1, Len(p))

RECURSIVE RStripSlash(_)
\* str.rstrip('/')
RStripSlash(s) ==
  IF s # <<>> /\ s[Len(s)] = "/" THEN RStripSlash(Slice(s, 1, Len(s) - 1))
  ELSE s

AllSlashes(s) == \A k \in 1..Len(s) : s[k] = "/"

\* os.path.dirname(p): head = p[:i]; if head and head != '/'*len(head):
\* head = head.rstrip('/')
Dirname(p) ==
  LET head == Slice(p, 1, RFind(p, "/", Len(p)))
  IN IF head # <<>> /\ ~AllSlashes(head) THEN RStripSlash(head) ELSE head

RECURSIVE SplitAt(_, _, _)
\* the loop of genericpath._splitext: the first index in fi..dot-1 that does
\* not hold a dot makes dot the split point; if there is none the extension
\* is empty. The result is the length of the root.
SplitAt(p, fi, dot) ==
  IF fi >= dot THEN Len(p)
  ELSE IF p[fi] # "." THEN dot - 1
  ELSE SplitAt(p, fi + 1, dot)

\* os.path.splitext(p)[0]
SplitextRoot(p) ==
  LET sepIndex == RFind(p, "/", Len(p))
      dotIndex == RFind(p, ".", Len(p))
  IN IF dotIndex > sepIndex
       THEN Slice(p, 1, SplitAt(p, sepIndex + 1, dotIndex))
       ELSE p

\* os.path.join(a, b)
Join(a, b) ==
  IF b # <<>> /\ b[1] = "/" THEN b
  ELSE IF a = <<>> \/ a[Len(a)] = "/" THEN a \o b
  ELSE a \o <<"/">> \o b

RECURSIVE Str(_)
\* str(n) for n >= 0: the decimal digits of n
Str(n) ==
  LET digit == <<"0", "1", "2", "3", "4", "5", "6", "7", "8", "9">>[(n % 10) + 1]
  IN IF n < 10 THEN <<digit>> ELSE Append(Str(n \div 10), digit)

(***************************************************************************)
(* The environment: a file system and the openssl executable               *)
(***************************************************************************)
DirA == <<"/", "a">>
DirS == <<"/", "a", "/", "s">>
DirX == <<"/", "x">>
FileR == <<"/", "a", "/", "r", ".", "p", "7", "m">>
FileN == <<"/", "a", "/", "n", ".", "t", "x", "t">>
FileSR == <<"/", "a", "/", "s", "/", "r", ".", "P", "7", "M">>
FifoQ == <<"/", "x", "/", "q", ".", "p", "7", "m">>
Missing == <<"/", "m", ".", "p", "7", "m">>

\* what each existing path is: a regular file, a directory, or another kind
\* of entry (a FIFO, a socket, a dangling symbolic link)
FS ==
  (DirA :> "dir") @@ (DirS :> "dir") @@ (DirX :> "dir") @@
  (FileR :> "file") @@ (FileN :> "file") @@ (FileSR :> "file") @@
  (FifoQ :> "other")

\* directories in which a file can be created
WritableDirs == {DirA, DirX}

\* os.path.isfile / os.path.isdir
IsFile(p) == p \in DOMAIN FS /\ FS[p] = "file"
IsDir(p) == p \in DOMAIN FS /\ FS[p] = "dir"

(***************************************************************************)
(* The state of the application                                            *)
(***************************************************************************)
VARIABLES
  file_queue,          \* self.file_queue: the paths queued, the dedup list
  model,               \* self.model: the Gio.ListStore of FileItem objects
  custom_export_path,  \* self.custom_export_path: None or a directory
  switch_dest,         \* self.switch_dest.get_active()
  dest_dialog,         \* a "Select Export Folder" dialog is open
  btn_convert,         \* self.btn_convert.get_sensitive()
  lbl_status,          \* the text of self.lbl_status
  progress_bar,        \* self.progress_bar.get_fraction(), as <<num, den>>
  openssl,             \* what shutil.which("openssl") returns
  threads,             \* the frames of the run_conversion_thread threads
  idle,                \* callbacks posted with GLib.idle_add, oldest first
  add_log,             \* history: the paths given to add_file_to_queue
  events,              \* history: the number of user events handled
  rs                   \* the path specification's input and result

vars ==
  <<file_queue, model, custom_export_path, switch_dest, dest_dialog,
    btn_convert, lbl_status, progress_bar, openssl, threads, idle,
    add_log, events, rs>>

Range(s) == {s[k] : k \in 1..Len(s)}

Pending == "Pending"
Processing == "Processing..."
Done == "Done"
Error == "Error"

LblReady == <<"Ready">>
LblNoOpenssl == <<"Error: OpenSSL not found">>
LblComplete == <<"Extraction Complete">>
\* f"{_('Added')} {added} {_('files')}"
LblAdded(n) == <<"Added", Str(n), "files">>

\* FileItem.__init__
FileItem(id, filename, path, full_path, status) ==
  [id |-> id, filename |-> filename, path |-> path,
   full_path |-> full_path, status |-> status]

\* the id add_file_to_queue gives the new item: str(len(self.file_queue)),
\* taken after the path was appended to file_queue
SequenceIdStale(queue) == Str(Len(queue) - 1)

SequenceId(queue) == Str(Len(queue))

\* add_file_to_queue applied to always-append (no test of line 280)
AddToQueueNoDedup(qm, path) ==
  LET queue == Append(qm.file_queue, path)
  IN [file_queue |-> queue,
      model |-> Append(qm.model,
                       FileItem(SequenceId(queue), Basename(path),
                                Dirname(path), path, Pending))]

\* add_file_to_queue putting the new item at the head of the model
AddToQueueModelFirst(qm, path) ==
  IF path \in Range(qm.file_queue) THEN qm
  ELSE LET queue == Append(qm.file_queue, path)
       IN [file_queue |-> queue,
           model |-> <<FileItem(SequenceId(queue), Basename(path),
                                Dirname(path), path, Pending)>> \o qm.model]

\* lines 280-283 of add_file_to_queue on the pair (file_queue, model)
AddToQueue(qm, path) ==
  IF path \in Range(qm.file_queue) THEN qm
  ELSE LET queue == Append(qm.file_queue, path)
       IN [file_queue |-> queue,
           model |-> Append(qm.model,
                            FileItem(SequenceId(queue), Basename(path),
                                     Dirname(path), path, Pending))]

RECURSIVE AddAll(_, _)
\* add_file_to_queue called for each path of a sequence, in order
AddAll(qm, paths) ==
  IF paths = <<>> THEN qm
  ELSE AddAll(AddToQueue(qm, Head(paths)), Tail(paths))

\* update_ui_state: the sensitivity it gives the Extract button
UpdateUiState(m) == Len(m) > 0

\* history: the queue changed after the thread was started
MarkMutated(ts, changed) ==
  [w \in DOMAIN ts |->
     IF changed /\ ts[w].pc # "freed" THEN [ts[w] EXCEPT !.mutated = TRUE]
     ELSE ts[w]]

\* the items a thread holds are no longer in the store after remove_all
Detach(ts) ==
  [w \in DOMAIN ts |->
     IF ts[w].item.ref > 0 THEN [ts[w] EXCEPT !.item.ref = 0] ELSE ts[w]]

\* add_file_to_queue(path)
add_file_to_queue(path) ==
  LET qm == AddToQueue([file_queue |-> file_queue, model |-> model], path)
  IN /\ file_queue' = qm.file_queue
     /\ model' = qm.model
     /\ btn_convert' = IF qm.model # model THEN UpdateUiState(qm.model)
                       ELSE btn_convert
     /\ threads' = MarkMutated(threads, qm.model # model)
     /\ UNCHANGED <<custom_export_path, switch_dest, dest_dialog, lbl_status,
                    progress_bar, openssl, idle>>

\* on_clear_clicked
on_clear_clicked ==
  /\ file_queue' = <<>>
  /\ model' = <<>>
  /\ btn_convert' = UpdateUiState(<<>>)
  /\ threads' = Detach(MarkMutated(threads, TRUE))
  /\ UNCHANGED <<custom_export_path, switch_dest, dest_dialog, lbl_status,
                 progress_bar, openssl, idle>>

(***************************************************************************)
(* Discovery: process_added_items                                          *)
(***************************************************************************)
\* the sequences that list each element of a finite set once
RECURSIVE Perms(_)
Perms(S) ==
  IF S = {} THEN {<<>>}
  ELSE UNION {{<<x>> \o t : t \in Perms(S \ {x})} : x \in S}

\* the entries of a directory, as os.scandir lists them
Entries(d) == {p \in DOMAIN FS : p # d /\ Dirname(p) = d}

\* os.walk puts an entry in dirs if it is a directory and in filenames
\* otherwise, whatever else it is
WalkFilenames(d) == {Basename(p) : p \in {e \in Entries(d) : FS[e] # "dir"}}

WalkDirs(d) == {e \in Entries(d) : FS[e] = "dir"}

RECURSIVE Walk(_)
RECURSIVE WalkEach(_)
\* lines 260-264: the paths given to add_file_to_queue while os.walk(d)
\* runs, in each order the directory listings may have: the matching names
\* of d, then the walks of its subdirectories
Walk(d) ==
  LET names == {n \in WalkFilenames(d) : MatchesP7m(n)}
  IN {[k \in 1..Len(f) |-> Join(d, f[k])] \o r :
        f \in Perms(names), r \in WalkEach(WalkDirs(d))}

WalkEach(ds) ==
  IF ds = {} THEN {<<>>}
  ELSE UNION {{w \o r : w \in Walk(d), r \in WalkEach(ds \ {d})} : d \in ds}

RECURSIVE Candidates(_)
\* lines 254-264: the sequences of paths process_added_items may give to
\* add_file_to_queue for the argument paths
Candidates(paths) ==
  IF paths = <<>> THEN {<<>>}
  ELSE LET path == Head(paths)
           first == IF IsFile(path) /\ MatchesP7m(path) THEN {<<path>>}
                    ELSE IF IsDir(path) THEN Walk(path)
                    ELSE {<<>>}
       IN {f \o r : f \in first, r \in Candidates(Tail(paths))}

\* process_added_items, cs being the paths lines 254-264 hand to
\* add_file_to_queue (a member of Candidates(paths))
process_added_items(cs) ==
  LET qm == AddAll([file_queue |-> file_queue, model |-> model], cs)
  IN /\ file_queue' = qm.file_queue
     /\ model' = qm.model
     /\ btn_convert' = IF qm.model # model THEN UpdateUiState(qm.model)
                       ELSE btn_convert
     /\ lbl_status' = IF Len(cs) > 0 THEN LblAdded(Len(cs)) ELSE lbl_status
     /\ threads' = MarkMutated(threads, qm.model # model)
     /\ UNCHANGED <<custom_export_path, switch_dest, dest_dialog,
                    progress_bar, openssl, idle>>

\* the files the "Add Files" dialog offers: the filter patterns *.p7m, *.P7M
DialogFiles ==
  {p \in DOMAIN FS :
     /\ FS[p] = "file"
     /\ \/ EndsWith(Basename(p), DotP7m)
        \/ EndsWith(Basename(p), <<".", "P", "7", "M">>)}

\* on_open_multiple_finish with the files selected in the dialog
on_open_multiple_finish(files) ==
  LET qm == AddAll([file_queue |-> file_queue, model |-> model], files)
  IN /\ file_queue' = qm.file_queue
     /\ model' = qm.model
     /\ btn_convert' = IF qm.model # model THEN UpdateUiState(qm.model)
                       ELSE btn_convert
     /\ threads' = MarkMutated(threads, qm.model # model)
     /\ UNCHANGED <<custom_export_path, switch_dest, dest_dialog, lbl_status,
                    progress_bar, openssl, idle>>

(***************************************************************************)
(* The destination setting                                                 *)
(***************************************************************************)
\* the folders the "Select Export Folder" dialog can return
DestDirs == {DirX, DirS}

\* Python's truth value of self.custom_export_path
Truthy(x) == x # None /\ x # <<>>

\* the user flips the switch: on_dest_switch_toggled
on_dest_switch_toggled ==
  /\ switch_dest' = ~switch_dest
  /\ IF switch_dest
       THEN custom_export_path' = None /\ UNCHANGED dest_dialog
       ELSE IF ~Truthy(custom_export_path)
              THEN dest_dialog' = TRUE /\ UNCHANGED custom_export_path
              ELSE UNCHANGED <<custom_export_path, dest_dialog>>
  /\ UNCHANGED <<file_queue, model, btn_convert, lbl_status, progress_bar,
                 openssl, threads, idle>>

\* on_pick_dest_clicked: btn_pick is sensitive while the switch is active
on_pick_dest_clicked ==
  /\ switch_dest
  /\ dest_dialog' = TRUE
  /\ UNCHANGED <<file_queue, model, custom_export_path, switch_dest,
                 btn_convert, lbl_status, progress_bar, openssl, threads,
                 idle>>

\* on_select_folder_finish: the dialog returns folder, or None when it was
\* dismissed (GLib.Error). switch_dest.set_active runs on_dest_switch_toggled
\* when it changes the switch.
on_select_folder_finish(folder) ==
  /\ dest_dialog
  /\ dest_dialog' = FALSE
  /\ IF folder # None
       THEN custom_export_path' = folder /\ switch_dest' = TRUE
       ELSE /\ UNCHANGED custom_export_path
            /\ switch_dest' = IF ~Truthy(custom_export_path) THEN FALSE
                              ELSE switch_dest
  /\ UNCHANGED <<file_queue, model, btn_convert, lbl_status, progress_bar,
                 openssl, threads, idle>>

(***************************************************************************)
(* Conversion: on_convert_clicked, run_conversion_thread, the main loop    *)
(***************************************************************************)
RECURSIVE Gcd(_, _)
Gcd(a, b) == IF b = 0 THEN a ELSE Gcd(b, a % b)

\* the float n / d, kept as the fraction in lowest terms
Fraction(n, d) == <<n \div Gcd(n, d), d \div Gcd(n, d)>>

FracLeq(f, g) == f[1] * g[2] <= g[1] * f[2]

\* the value of the variable item when it holds None
NoItem == [ref |-> -1, filename |-> None, path |-> None, full_path |-> None]

\* the frame of a thread that has not run yet. item is the local variable
\* the two lambdas of lines 336 and 352 close over: NoItem, or the FileItem
\* it refers to, with ref its position in the store (0 once the store no
\* longer holds it). log, finished and mutated are history.
NewThread ==
  [pc |-> "start", openssl |-> None, count |-> 0, i |-> 0, item |-> NoItem,
   truthy |-> FALSE, out_path |-> None,
   log |-> <<>>, finished |-> FALSE, mutated |-> FALSE]

\* a thread that ended and left no callback behind: nothing refers to its
\* frame any more
Ended(w) ==
  /\ threads[w].pc \in {"done", "dead"}
  /\ \A k \in 1..Len(idle) : idle[k].w # w

\* the frame of an ended thread, freed
Retired == [NewThread EXCEPT !.pc = "freed"]

Retire(ts) == [w \in DOMAIN ts |-> IF Ended(w) THEN Retired ELSE ts[w]]

\* on_convert_clicked: the clicked signal needs a sensitive button
on_convert_clicked ==
  /\ btn_convert
  /\ Len(threads) < MaxRuns
  /\ btn_convert' = FALSE
  /\ progress_bar' = Fraction(0, 1)
  /\ threads' = Append(Retire(threads), NewThread)
  /\ UNCHANGED <<file_queue, model, custom_export_path, switch_dest,
                 dest_dialog, lbl_status, openssl, idle>>

\* a callback handed to GLib.idle_add by thread w
Callback(kind, w, s, f) == [kind |-> kind, w |-> w, s |-> s, f |-> f]

\* self.model.get_item(i), i counted from 0: None past the end
GetItem(i) ==
  IF i + 1 <= Len(model)
    THEN [ref |-> i + 1, filename |-> model[i + 1].filename,
          path |-> model[i + 1].path, full_path |-> model[i + 1].full_path]
    ELSE NoItem

\* lines 338-340 with the extension cut at the first dot of the name
OutPathFirstDot(filename, dest) ==
  LET dot == CHOOSE k \in 1..(Len(filename) + 1) :
               /\ k = Len(filename) + 1 \/ filename[k] = "."
               /\ \A j \in 1..(k - 1) : filename[j] # "."
  IN Join(dest, Slice(filename, 1, dot - 1) \o DotPdf)

\* lines 338 and 340: base = os.path.splitext(item.filename)[0] + ".pdf";
\* out_path = os.path.join(dest, base)
OutPath(filename, dest) == Join(dest, SplitextRoot(filename) \o DotPdf)

ThreadVarsUnchanged ==
  UNCHANGED <<file_queue, model, custom_export_path, switch_dest, dest_dialog,
              btn_convert, lbl_status, progress_bar, openssl>>

\* lines 331-332: openssl = shutil.which("openssl"); count = get_n_items()
thread_start(w) ==
  /\ threads[w].pc = "start"
  /\ threads' = [threads EXCEPT ![w].openssl = openssl,
                                ![w].count = Len(model),
                                ![w].i = 0,
                                ![w].pc = "item"]
  /\ UNCHANGED idle
  /\ ThreadVarsUnchanged

\* lines 334-336, and line 355 when the loop is over
thread_item(w) ==
  LET t == threads[w]
  IN /\ t.pc = "item"
     /\ IF t.i < t.count
          THEN /\ threads' = [threads EXCEPT ![w].item = GetItem(t.i),
                                             ![w].pc = "base"]
               /\ idle' = Append(idle, Callback("status", w, Processing, <<>>))
          ELSE /\ threads' = [threads EXCEPT ![w].pc = "done"]
               /\ idle' = Append(idle, Callback("finish", w, "", <<>>))
     /\ ThreadVarsUnchanged

\* line 338 and the test of line 339. item.filename raises AttributeError
\* when get_item returned None: the exception ends the thread.
thread_base(w) ==
  LET t == threads[w]
  IN /\ t.pc = "base"
     /\ IF t.item = NoItem
          THEN threads' = [threads EXCEPT ![w].pc = "dead"]
          ELSE threads' = [threads EXCEPT
                             ![w].truthy = Truthy(custom_export_path),
                             ![w].pc = "dest"]
     /\ UNCHANGED idle
     /\ ThreadVarsUnchanged

\* line 339: self.custom_export_path if self.custom_export_path else
\* item.path, truthy being the outcome of the test
Dest(truthy, custom, item) == IF truthy THEN custom ELSE item.path

\* the value of line 339, read after its test, and line 340.
\* os.path.join(None, base) raises TypeError outside the try: the exception
\* ends the thread.
thread_dest(w) ==
  LET t == threads[w]
      dest == Dest(t.truthy, custom_export_path, t.item)
  IN /\ t.pc = "dest"
     /\ IF dest = None
          THEN threads' = [threads EXCEPT ![w].pc = "dead"]
          ELSE threads' = [threads EXCEPT
                             ![w].out_path = OutPath(t.item.filename, dest),
                             ![w].pc = "run"]
     /\ UNCHANGED idle
     /\ ThreadVarsUnchanged

\* the returncode of a process that was never spawned
NoCode == -1

\* lines 342-352: subprocess.run and the status callback. With openssl None
\* the call raises before any process is spawned; a process that cannot
\* create its output exits nonzero; every other exit status is the
\* verifier's choice.
thread_run(w, rc) ==
  LET t == threads[w]
      spawned == t.openssl # None
      code == IF spawned THEN rc ELSE NoCode
      success == spawned /\ rc = 0
  IN /\ t.pc = "run"
     /\ spawned /\ Dirname(t.out_path) \notin WritableDirs => rc # 0
     /\ ~spawned => rc = 0
     /\ threads' = [threads EXCEPT
                      ![w].log = Append(t.log,
                                        [i |-> t.i,
                                         input |-> t.item.full_path,
                                         output |-> t.out_path,
                                         spawned |-> spawned,
                                         returncode |-> code]),
                      ![w].pc = "fraction"]
     /\ idle' = Append(idle, Callback("status", w,
                                      IF success THEN Done ELSE Error, <<>>))
     /\ ThreadVarsUnchanged

\* line 353, and the next turn of the loop
thread_fraction(w) ==
  LET t == threads[w]
  IN /\ t.pc = "fraction"
     /\ idle' = Append(idle, Callback("fraction", w, "",
                                      Fraction(t.i + 1, t.count)))
     /\ threads' = [threads EXCEPT ![w].i = t.i + 1, ![w].pc = "item"]
     /\ ThreadVarsUnchanged

\* item.set_property("status", s) run by the main loop: item is whatever
\* the thread's variable holds now. On None it raises and changes nothing.
SetStatus(m, item, s) ==
  IF item.ref <= 0 THEN m
  ELSE [m EXCEPT ![item.ref].status = s]

\* the main loop runs the oldest idle callback
idle_dispatch ==
  /\ idle # <<>>
  /\ idle' = Tail(idle)
  /\ LET cb == Head(idle)
     IN CASE cb.kind = "status" ->
               /\ model' = SetStatus(model, threads[cb.w].item, cb.s)
               /\ UNCHANGED <<btn_convert, lbl_status, progress_bar,
                              threads>>
          [] cb.kind = "fraction" ->
               /\ progress_bar' = cb.f
               /\ UNCHANGED <<model, btn_convert, lbl_status, threads>>
          [] cb.kind = "finish" ->
               \* finish_conversion
               /\ lbl_status' = LblComplete
               /\ btn_convert' = TRUE
               /\ threads' = [threads EXCEPT ![cb.w].finished = TRUE]
               /\ UNCHANGED <<model, progress_bar>>
  /\ UNCHANGED <<file_queue, custom_export_path, switch_dest, dest_dialog,
                 openssl>>

(***************************************************************************)
(* The application                                                         *)
(***************************************************************************)
\* where shutil.which finds openssl when it is installed
OpensslPath == <<"/", "o">>

\* nothing resolved yet
NoResolve == [path |-> None, override |-> None, out |-> None]

\* the state after do_activate, which ends with check_openssl
Init ==
  /\ file_queue = <<>>
  /\ model = <<>>
  /\ custom_export_path = None
  /\ switch_dest = FALSE
  /\ dest_dialog = FALSE
  /\ btn_convert = FALSE
  /\ openssl \in {None, OpensslPath}
  /\ lbl_status = IF openssl = None THEN LblNoOpenssl ELSE LblReady
  /\ progress_bar = Fraction(0, 1)
  /\ threads = <<>>
  /\ idle = <<>>
  /\ add_log = <<>>
  /\ events = 0
  /\ rs = NoResolve

\* the argument lists of a drop or of the "Add Folder" dialog
DropPaths == DOMAIN FS \cup {Missing}

RECURSIVE SeqsUpTo(_, _)
\* the sequences over S of length 1..n
SeqsUpTo(S, n) ==
  IF n = 0 THEN {}
  ELSE {<<x>> : x \in S}
       \cup {Append(t, x) : t \in SeqsUpTo(S, n - 1), x \in S}

\* the selections of the "Add Files" dialog
DialogSelections == SeqsUpTo(DialogFiles, MaxDrop)

\* the arguments of process_added_items, each with an order its walks can
\* produce
DropCases ==
  UNION {{<<paths, cs>> : cs \in Candidates(paths)} :
           paths \in SeqsUpTo(DropPaths, MaxDrop)}

DropOutcomes == {d[2] : d \in DropCases}

\* a user event: the model follows executions with at most MaxEvents of
\* them and queues of at most MaxQueue files
User(handler) ==
  /\ events < MaxEvents
  /\ handler
  /\ Len(file_queue') <= MaxQueue
  /\ events' = events + 1
  /\ UNCHANGED <<add_log, rs>>

Next ==
  \/ User(\E files \in DialogSelections : on_open_multiple_finish(files))
  \/ User(\E cs \in DropOutcomes : process_added_items(cs))
  \/ User(on_clear_clicked)
  \/ User(on_dest_switch_toggled)
  \/ User(on_pick_dest_clicked)
  \/ User(\E folder \in DestDirs \cup {None} : on_select_folder_finish(folder))
  \/ on_convert_clicked /\ UNCHANGED <<add_log, events, rs>>
  \/ /\ \E w \in DOMAIN threads :
          \/ thread_start(w)
          \/ Len(idle) < MaxIdle /\ thread_item(w)
          \/ thread_base(w)
          \/ thread_dest(w)
          \/ Len(idle) < MaxIdle /\ \E rc \in {0, 1} : thread_run(w, rc)
          \/ Len(idle) < MaxIdle /\ thread_fraction(w)
     /\ UNCHANGED <<add_log, events, rs>>
  \/ idle_dispatch /\ UNCHANGED <<add_log, events, rs>>

Spec == Init /\ [][Next]_vars

\* a step of the thread w
ThreadStep(w) ==
  /\ w \in DOMAIN threads
  /\ \/ thread_start(w)
     \/ Len(idle) < MaxIdle /\ thread_item(w)
     \/ thread_base(w)
     \/ thread_dest(w)
     \/ Len(idle) < MaxIdle /\ \E rc \in {0, 1} : thread_run(w, rc)
     \/ Len(idle) < MaxIdle /\ thread_fraction(w)
  /\ UNCHANGED <<add_log, events, rs>>

\* the scheduling: a thread that can run does run, and the main loop gets
\* to its idle callbacks
Fairness ==
  /\ \A w \in 1..MaxRuns : WF_vars(ThreadStep(w))
  /\ WF_vars(idle_dispatch /\ UNCHANGED <<add_log, events, rs>>)

SpecFair == Init /\ [][Next]_vars /\ Fairness

(***************************************************************************)
(* The queue alone: add_file_to_queue and on_clear_clicked, with the paths *)
(* given to add_file_to_queue since the last clear recorded in add_log     *)
(***************************************************************************)
\* the paths add_file_to_queue is called with
AddPaths == {p \in DOMAIN FS : FS[p] # "dir"} \cup {Missing}

NextQueue ==
  \/ /\ Len(add_log) < MaxAdds
     /\ \E path \in AddPaths :
          /\ add_file_to_queue(path)
          /\ add_log' = Append(add_log, path)
     /\ UNCHANGED <<events, rs>>
  \/ /\ on_clear_clicked
     /\ add_log' = <<>>
     /\ UNCHANGED <<events, rs>>

SpecQueue == Init /\ [][NextQueue]_vars

(***************************************************************************)
(* Path resolution alone: lines 282 and 338-340 applied to a path and a    *)
(* destination setting                                                     *)
(***************************************************************************)
RECURSIVE Names(_)
\* the file names of length 1..n over the letters r, 7 and the dot
Names(n) ==
  IF n = 0 THEN {}
  ELSE {<<c>> : c \in {"r", "7", "."}}
       \cup {Append(t, c) : t \in Names(n - 1), c \in {"r", "7", "."}}

DirAB == <<"/", "a", "/", "b">>
DirXY == <<"/", "x", "/", "y">>
Report == DirAB \o <<"/", "r", "e", "p", "o", "r", "t", ".", "p", "7", "m">>
ReportPdf == <<"r", "e", "p", "o", "r", "t", ".", "p", "d", "f">>

\* the paths resolved: each name in the root and in a directory, and the
\* files of the file system
ResolvePaths ==
  {Join(d, n) : d \in {<<"/">>, DirA},
                n \in Names(MaxLen) \ {<<".">>, <<".", ".">>}}
  \cup {Report, FileR, FileSR, FifoQ}

\* the values of custom_export_path
ResolveOverrides == {None, <<>>, <<"/">>, DirX, DirXY}

\* the item add_file_to_queue makes of path, resolved by lines 338-340 while
\* custom_export_path is override
resolve(path, override) ==
  LET item == AddToQueue([file_queue |-> <<>>, model |-> <<>>], path).model[1]
      dest == Dest(Truthy(override), override, item)
  IN /\ rs = NoResolve
     /\ rs' = [path |-> path, override |-> override,
               out |-> OutPath(item.filename, dest)]
     /\ UNCHANGED <<file_queue, model, custom_export_path, switch_dest,
                    dest_dialog, btn_convert, lbl_status, progress_bar,
                    openssl, threads, idle, add_log, events>>

NextPath == \E path \in ResolvePaths, override \in ResolveOverrides :
              resolve(path, override)

SpecPath == Init /\ [][NextPath]_vars

(***************************************************************************)
(* One run and the destination setting: files are added, the destination   *)
(* is switched, picked and changed at any time, Extract is clicked once    *)
(***************************************************************************)
UserDest(handler) ==
  /\ events < MaxDestEvents
  /\ handler
  /\ Len(file_queue') <= MaxQueue
  /\ events' = events + 1
  /\ UNCHANGED <<add_log, rs>>

NextDest ==
  \/ UserDest(\E cs \in DropOutcomes : process_added_items(cs))
  \/ UserDest(on_dest_switch_toggled)
  \/ UserDest(on_pick_dest_clicked)
  \/ UserDest(\E folder \in DestDirs \cup {None} :
               on_select_folder_finish(folder))
  \/ threads = <<>> /\ on_convert_clicked /\ UNCHANGED <<add_log, events, rs>>
  \/ /\ \E w \in DOMAIN threads :
          \/ thread_start(w)
          \/ Len(idle) < MaxIdle /\ thread_item(w)
          \/ thread_base(w)
          \/ thread_dest(w)
          \/ Len(idle) < MaxIdle /\ \E rc \in {0, 1} : thread_run(w, rc)
          \/ Len(idle) < MaxIdle /\ thread_fraction(w)
     /\ UNCHANGED <<add_log, events, rs>>
  \/ idle_dispatch /\ UNCHANGED <<add_log, events, rs>>

SpecDest == Init /\ [][NextDest]_vars

(***************************************************************************)
(* Properties                                                              *)
(***************************************************************************)
Terminal == {Done, Error}

\* the last thread started, when its run was on n >= 1 items, has had its
\* finish_conversion run, the queue did not change since it started, and
\* every thread started before it had ended with all its callbacks run
CompletedRun(w) ==
  /\ w = Len(threads)
  /\ threads[w].finished
  /\ threads[w].count >= 1
  /\ ~threads[w].mutated
  /\ \A v \in 1..(w - 1) : threads[v].pc = "freed"

\* C1: once finish_conversion has run for a run on N >= 1 items whose queue
\* was not changed, every item has status Done or Error.
C1_AllTerminalAtFinish ==
  \A w \in DOMAIN threads :
    CompletedRun(w) =>
      \A k \in 1..Len(model) : model[k].status \in Terminal

\* the run of thread w invoked the verifier for every item and exactly one
\* invocation exited nonzero
OneFailure(w) ==
  LET log == threads[w].log
  IN /\ Len(log) = threads[w].count
     /\ \A k \in 1..Len(log) : log[k].spawned
     /\ Cardinality({k \in 1..Len(log) : log[k].returncode # 0}) = 1

\* C2: failure isolation. After a run in which exactly one verifier
\* invocation failed, the failing item is Error and every other item is
\* Done: each item's status is its own invocation's outcome.
C2_FailureIsolation ==
  \A w \in DOMAIN threads :
    (CompletedRun(w) /\ OneFailure(w)) =>
      \A k \in 1..Len(model) :
        model[k].status =
          IF threads[w].log[k].returncode = 0 THEN Done ELSE Error

\* C3: with no openssl executable the pipeline never starts: no conversion
\* thread exists and every queued item stays Pending.
C3_NoStartWithoutVerifier ==
  openssl = None =>
    /\ threads = <<>>
    /\ \A k \in 1..Len(model) : model[k].status = Pending

RECURSIVE FirstSeen(_)
\* the distinct elements of a sequence, each at its first occurrence
FirstSeen(log) ==
  IF log = <<>> THEN <<>>
  ELSE LET front == FirstSeen(SubSeq(log, 1, Len(log) - 1))
           last == log[Len(log)]
       IN IF \E k \in 1..(Len(log) - 1) : log[k] = last THEN front
          ELSE Append(front, last)

\* C4: after any sequence of add_file_to_queue calls the queue and the item
\* list hold each distinct path once, in first-seen order; a path already
\* present changes neither.
C4_DedupFirstSeen ==
  /\ file_queue = FirstSeen(add_log)
  /\ [k \in 1..Len(model) |-> model[k].full_path] = FirstSeen(add_log)

\* a path was added again and left the queue of two paths as it was
C4_Witness ==
  /\ Len(file_queue) = 2
  /\ Len(add_log) = 4
  /\ add_log[4] = file_queue[1]

\* the run of thread w is over: the thread ended and all its callbacks ran
RunOver(w) ==
  /\ threads[w].pc \in {"done", "dead"}
  /\ \A k \in 1..Len(idle) : idle[k].w # w

\* C5: the fractions applied to the progress bar during a run never
\* decrease, and when a run on N >= 1 items is over the bar is at 1.0.
C5_ProgressMonotoneToOne ==
  [][/\ (Len(threads') = Len(threads) /\ Len(threads) >= 1)
          => FracLeq(progress_bar, progress_bar')
     /\ \A w \in DOMAIN threads' :
          (w = Len(threads') /\ RunOver(w)' /\ threads'[w].count >= 1)
            => progress_bar' = Fraction(1, 1)]_vars

RECURSIVE Value(_)
\* the number a string of decimal digits denotes (-1 if it is not one)
Value(digits) ==
  LET n == Len(digits)
      d == CASE digits[n] = "0" -> 0 [] digits[n] = "1" -> 1
             [] digits[n] = "2" -> 2 [] digits[n] = "3" -> 3
             [] digits[n] = "4" -> 4 [] digits[n] = "5" -> 5
             [] digits[n] = "6" -> 6 [] digits[n] = "7" -> 7
             [] digits[n] = "8" -> 8 [] digits[n] = "9" -> 9
             [] OTHER -> -1
  IN IF n = 0 \/ d = -1 THEN -1
     ELSE IF n = 1 THEN d
     ELSE IF Value(SubSeq(digits, 1, n - 1)) = -1 THEN -1
     ELSE 10 * Value(SubSeq(digits, 1, n - 1)) + d

\* C6: the ids of the queued items are 1..count in queue order, after any
\* adds, clears and runs.
C6_SequenceIds ==
  \A k \in 1..Len(model) : Value(model[k].id) = k

\* a run of two items completed, the queue was cleared, and the file added
\* next has id 1
C6_Witness ==
  /\ Len(threads) = 1
  /\ threads[1].finished
  /\ threads[1].count = 2
  /\ Len(model) = 1
  /\ model[1].status = Pending
  /\ model[1].id = <<"1">>

\* the directory of an absolute path: what precedes its last slash, the
\* root for a file of the root
SourceDirectory(path) ==
  LET k == CHOOSE j \in 1..Len(path) :
             /\ path[j] = "/"
             /\ \A m \in (j + 1)..Len(path) : path[m] # "/"
  IN IF k = 1 THEN <<"/">> ELSE SubSeq(path, 1, k - 1)

\* the last component of an absolute path
BaseName(path) ==
  LET k == CHOOSE j \in 1..Len(path) :
             /\ path[j] = "/"
             /\ \A m \in (j + 1)..Len(path) : path[m] # "/"
  IN SubSeq(path, k + 1, Len(path))

\* where the final extension of a name starts: at its last dot, if a
\* character other than a dot precedes it; a name with no such dot has no
\* extension (Len(name) + 1)
ExtensionStart(name) ==
  LET dots == {k \in 1..Len(name) :
                 /\ name[k] = "."
                 /\ \A m \in (k + 1)..Len(name) : name[m] # "."
                 /\ \E j \in 1..(k - 1) : name[j] # "."}
  IN IF dots = {} THEN Len(name) + 1 ELSE CHOOSE k \in dots : TRUE

\* C7: the output path is join(D, B): D the destination override if it is
\* set and not empty, else the item's source directory; B the base name
\* with its final extension replaced by .pdf.
C7_OutputPath ==
  rs # NoResolve =>
    LET name == BaseName(rs.path)
        B == SubSeq(name, 1, ExtensionStart(name) - 1) \o DotPdf
        D == IF rs.override # None /\ rs.override # <<>> THEN rs.override
             ELSE SourceDirectory(rs.path)
    IN rs.out = IF D[Len(D)] = "/" THEN D \o B ELSE D \o <<"/">> \o B

\* /a/b/report.p7m with the override /x/y gives /x/y/report.pdf
C7_Witness ==
  /\ rs.path = Report
  /\ rs.override = DirXY
  /\ rs.out = DirXY \o <<"/">> \o ReportPdf

\* f is in the tree below the directory d
Below(f, d) ==
  /\ Len(f) > Len(d) + 1
  /\ SubSeq(f, 1, Len(d)) = d
  /\ f[Len(d) + 1] = "/"

\* the regular files with extension .p7m, whatever its case, that the
\* argument path stands for
Matching(path) ==
  IF path \in DOMAIN FS /\ FS[path] = "dir"
    THEN {f \in DOMAIN FS :
            FS[f] = "file" /\ Below(f, path) /\ MatchesP7m(BaseName(f))}
    ELSE IF path \in DOMAIN FS /\ FS[path] = "file" /\ MatchesP7m(path)
           THEN {path}
           ELSE {}

RECURSIVE MatchingCount(_)
MatchingCount(paths) ==
  IF paths = <<>> THEN 0
  ELSE Cardinality(Matching(Head(paths))) + MatchingCount(Tail(paths))

\* C8: process_added_items queues exactly the regular files matching .p7m
\* that its arguments stand for, and reports their number, counted before
\* deduplication.
C8_Discovery ==
  [][\A d \in DropCases :
       process_added_items(d[2]) =>
         /\ Range(file_queue') =
              Range(file_queue) \cup UNION {Matching(d[1][k]) : k \in 1..Len(d[1])}
         /\ MatchingCount(d[1]) > 0 =>
              lbl_status' = LblAdded(MatchingCount(d[1]))
         /\ MatchingCount(d[1]) = 0 => lbl_status' = lbl_status]_vars

\* the status changes of the per-item state machine
Transitions ==
  {<<Pending, Processing>>, <<Processing, Done>>, <<Processing, Error>>}

\* C9: an item's status only changes Pending -> Processing -> Done or Error;
\* an item that is Done or Error keeps its status while it is in the queue.
C9_ItemStateMachine ==
  [][\A k \in 1..Len(model) :
       k <= Len(model') =>
         \/ model'[k].status = model[k].status
         \/ <<model[k].status, model'[k].status>> \in Transitions]_vars

\* C10: the verifier is never invoked for an item whose output directory is
\* not an existing writable directory.
C10_NoInvocationWithoutDirectory ==
  \A w \in DOMAIN threads :
    \A k \in 1..Len(threads[w].log) :
      Dirname(threads[w].log[k].output) \notin WritableDirs
        => ~threads[w].log[k].spawned

\* C11: within a run, two distinct inputs whose verifier invocation succeeded
\* (the items that end Done) were never given the same output path: one
\* output file per successfully processed input.
C11_OneOutputPerDone ==
  \A w \in DOMAIN threads :
    \A k, l \in 1..Len(threads[w].log) :
      LET a == threads[w].log[k]
          b == threads[w].log[l]
      IN (a.input # b.input /\ a.returncode = 0 /\ b.returncode = 0)
           => a.output # b.output

\* C12: in a run whose queue is not changed the verifier is invoked once for
\* each item, in queue order: the invocations made so far are those of the
\* first items, a run that ended made one for every item, and each
\* invocation posts Done if it exited 0 and Error if it exited nonzero or
\* could not be spawned.
C12_OncePerItemInOrder ==
  [][\A w \in DOMAIN threads' :
       LET t == threads'[w]
       IN /\ \A k \in 1..Len(t.log) : t.log[k].i = k - 1
          /\ ~t.mutated =>
               /\ Len(t.log) <= Len(model')
               /\ \A k \in 1..Len(t.log) :
                    t.log[k].input = model'[k].full_path
               /\ t.pc \in {"done", "dead"} => Len(t.log) = Len(model')
          /\ (w \in DOMAIN threads /\ Len(t.log) = Len(threads[w].log) + 1) =>
               idle'[Len(idle')] =
                 Callback("status", w,
                          IF t.log[Len(t.log)].returncode = 0 THEN Done
                          ELSE Error, <<>>)]_vars

\* C13: every run that was started eventually has its finish_conversion
\* run, whatever is added or cleared meanwhile, and finish_conversion runs
\* only after the loop went through the last item.
C13_FinishEventually ==
  /\ \A w \in 1..MaxRuns :
       (Len(threads) >= w /\ threads[w].pc = "start")
         ~> (Len(threads) >= w /\ threads[w].finished)
  /\ [](\A w \in DOMAIN threads :
          threads[w].finished =>
            threads[w].pc = "done" /\ threads[w].i = threads[w].count)

\* a run is active: its thread was started by a click and is running, or
\* has ended its loop with finish_conversion still to run
RunActive(w) ==
  \/ threads[w].pc \in {"start", "item", "base", "dest", "run", "fraction"}
  \/ threads[w].pc = "done" /\ ~threads[w].finished

\* the paths of the items of a list store, in order
Paths(m) == [k \in 1..Len(m) |-> m[k].full_path]

\* C14: while a run is active no step changes the queue: neither file_queue
\* nor the items of the model.
C14_NoMutationDuringRun ==
  [][(\E w \in DOMAIN threads : RunActive(w)) =>
       /\ file_queue' = file_queue
       /\ Paths(model') = Paths(model)]_vars

\* C15: at most one conversion thread is active at any time, and the Extract
\* button is insensitive while a run is active.
C15_SingleWorker ==
  /\ Cardinality({w \in DOMAIN threads : RunActive(w)}) <= 1
  /\ (\E w \in DOMAIN threads : RunActive(w)) => ~btn_convert

\* C16: whenever the Extract button is sensitive the queue is not empty, and
\* no run is on zero items.
C16_SensitiveMeansNonEmpty ==
  /\ btn_convert => (file_queue # <<>> /\ model # <<>>)
  /\ \A w \in DOMAIN threads :
       threads[w].pc \notin {"start", "freed"} => threads[w].count >= 1

\* C17: all items of one run are resolved against one destination setting:
\* the outputs of a run are either each in its input's own directory (no
\* override) or all in one directory (the override).
C17_OneDestinationPerRun ==
  \A w \in DOMAIN threads :
    LET log == threads[w].log
    IN \/ \A k \in 1..Len(log) :
            Dirname(log[k].output) = Dirname(log[k].input)
       \/ \A k, l \in 1..Len(log) :
            Dirname(log[k].output) = Dirname(log[l].output)

\* C18: file_queue and the model stay in lockstep: the paths of the items
\* of the model are file_queue, entry by entry, after any adds, clears and
\* runs; and a step that is no user event (a click on Extract, a step of a
\* worker, a callback run by the main loop) changes neither.
C18_Lockstep ==
  /\ [](Paths(model) = file_queue)
  /\ [][events' = events =>
          (file_queue' = file_queue /\ Paths(model') = Paths(model))]_vars

\* a run changed the statuses of a queue of two and completed
C18_Witness ==
  /\ file_queue = <<FileR, FileSR>>
  /\ model[1].status = Done
  /\ model[2].status = Error
  /\ \E w \in DOMAIN threads : threads[w].finished

====
